---- MODULE Spec2Model ----
(***************************************************************************)
(* Verification model of jmoussa/streamlit-stonks.                         *)
(*                                                                         *)
(*   SpecSignal : the dashboard's MACD signal classification               *)
(*                (src/1_Stock_Summary.py, lines 195-209)                  *)
(*   SpecRank   : StockReportGenerator's buy / sell recommendation lists   *)
(*                (src/backend/service/framework.py, lines 183-259)        *)
(*                                                                         *)
(* Floating point values are modelled as records [def, v]: def = FALSE is  *)
(* NaN (pandas' marker for an undefined rolling mean), v an integer.       *)
(***************************************************************************)
EXTENDS Integers, Sequences, FiniteSets, TLC

VARIABLES
    \* ---- dashboard (1_Stock_Summary.py) ----
    last_macd,            \* df_macd["macd"].iloc[-1]
    last_signal,          \* df_macd["signal"].iloc[-1]
    last_custom_macd,     \* df_custom_macd["macd_10_30"].iloc[-1]
    last_custom_signal,   \* df_custom_macd["signal_10_30"].iloc[-1]
    macd_signal,          \* "Bullish" / "Bearish" / "Neutral"; "unset" before line 201
    signal_color,         \* "green" / "red" / "orange"
    sig_pc,               \* position of the dashboard script
    \* ---- report generator (framework.py) ----
    stock_df,             \* [run -> sequence of rows]: self.stock_df of each generator
    n_recommendations,    \* the n handed to both _generate_*_recommendations
    buy_recommendations,  \* [run -> list returned by _generate_buy_recommendations]
    sell_recommendations, \* [run -> list returned by _generate_sell_recommendations]
    rank_pc,              \* position in the two report runs
    summary_stats,        \* outcome of _generate_summary_stats
    \* ---- period changes (main.py get_stock_data, 1_Stock_Summary.py) ----
    hist,                 \* hist["Close"] / df["Close"]: the daily closes, oldest first
    results,              \* the list get_stock_data builds its DataFrame from
    outcome,              \* how get_stock_data's loop body ended for the ticker
    weekly_change,        \* the dashboard's weekly_change
    monthly_change,       \* the dashboard's monthly_change
    chg_pc,               \* [batch, dash]: which of the two programs have run
    \* ---- indicators (backend/service/macd.py) ----
    price_df,             \* df: the price frame handed to the indicator functions
    fast_ma,              \* the four window parameters
    slow_ma,
    longest_ma,
    signal_period,
    df_custom_macd,       \* the frame calculate_custom_macd returned
    fast_period,          \* the two EMA spans of calculate_macd
    slow_period,
    df_macd,              \* the frame calculate_macd returned
    macd_pc,              \* position of the caller
    \* ---- batch script (main.py main) ----
    snapshot,             \* the parquet files of the working directory
    quotes,               \* [ticker -> what yfinance has for it]
    combined_data,        \* main's combined_data
    actionable_file,      \* main's actionable_file
    main_outcome,         \* how main() ended, and whether it scraped
    main_pc,              \* position of the batch script
    \* ---- report (framework.py generate_report, save_report_to_html) ----
    report_df,            \* self.stock_df of the generator that writes the report
    report_n,             \* the n_recommendations of generate_report
    report_data,          \* self.report_data
    save_outcome,         \* how save_report_to_html ended
    html_file,            \* the report file: "absent" or "written"
    report_pc             \* [generate, save]: which calls have been made

sigVars == <<last_macd, last_signal, last_custom_macd, last_custom_signal,
             macd_signal, signal_color, sig_pc>>
rankVars == <<stock_df, n_recommendations, buy_recommendations,
              sell_recommendations, rank_pc, summary_stats>>
chgVars == <<hist, results, outcome, weekly_change, monthly_change, chg_pc>>
macdVars == <<price_df, fast_ma, slow_ma, longest_ma, signal_period, df_custom_macd,
              fast_period, slow_period, df_macd, macd_pc>>
mainVars == <<snapshot, quotes, combined_data, actionable_file, main_outcome, main_pc>>
reportVars == <<report_df, report_n, report_data, save_outcome, html_file, report_pc>>
vars == <<sigVars, rankVars, chgVars, macdVars, mainVars, reportVars>>
notSigVars == <<rankVars, chgVars, macdVars, mainVars, reportVars>>
notRankVars == <<sigVars, chgVars, macdVars, mainVars, reportVars>>
notChgVars == <<sigVars, rankVars, macdVars, mainVars, reportVars>>
notMacdVars == <<sigVars, rankVars, chgVars, mainVars, reportVars>>
notMainVars == <<sigVars, rankVars, chgVars, macdVars, reportVars>>
notReportVars == <<sigVars, rankVars, chgVars, macdVars, mainVars>>

(***************************************************************************)
(* Bounds                                                                  *)
(***************************************************************************)
\* indicator values range over -MaxMag .. MaxMag
MaxMag == 2
\* a universe holds at most MaxRows instruments
MaxRows == 3
\* n ranges over 0 .. MaxN
MaxN == 2
\* a price history holds at most MaxLen daily closes
MaxLen == 23
\* the frame handed to the indicators holds at most MaxBars rows
MaxBars == 4
\* the window parameters range over 1 .. MaxWin
MaxWin == 3
\* the closes of a rising series range over 1 .. MaxPrice
MaxPrice == 6
\* a snapshot is up to MaxDays whole days (and less than a day more) old
MaxDays == 1

(***************************************************************************)
(* Floats                                                                  *)
(***************************************************************************)
Num(x) == [def |-> TRUE, v |-> x]
NaN == [def |-> FALSE, v |-> 0]

\* IEEE comparisons: every comparison with NaN is False
Gt(a, b) == a.def /\ b.def /\ a.v > b.v
Lt(a, b) == a.def /\ b.def /\ a.v < b.v

Mags == (0 - MaxMag) .. MaxMag
Defined == {Num(x) : x \in Mags}
MaybeNaN == Defined \cup {NaN}

(***************************************************************************)
(* float64 values that come out of divisions and means are modelled as     *)
(* fractions in lowest terms [num, den] with den >= 0: x/0 is +inf = 1/0 or *)
(* -inf = -1/0, and 0/0 is NaN, as numpy divides.                          *)
(***************************************************************************)
RECURSIVE Gcd(_, _)
Gcd(a, b) == IF b = 0 THEN a ELSE Gcd(b, a % b)

Abs(x) == IF x < 0 THEN 0 - x ELSE x
Sign(x) == IF x < 0 THEN -1 ELSE IF x > 0 THEN 1 ELSE 0

\* the float n / d
Frac(n, d) ==
    IF d = 0 THEN [num |-> Sign(n), den |-> 0]
    ELSE LET g == Gcd(Abs(n), Abs(d))
         IN  [num |-> Sign(d) * (n \div g), den |-> Abs(d) \div g]

FNaN == [num |-> 0, den |-> 0]
IsNaN(q) == q.num = 0 /\ q.den = 0
IsInf(q) == q.num # 0 /\ q.den = 0
IsFinite(q) == q.den > 0

(***************************************************************************)
(* 1_Stock_Summary.py: MACD signal                                         *)
(***************************************************************************)
\* line 201 with the self-comparison a copy/paste slip would produce
BullishBranch_SelfCompare(m, s, cm, cs) ==
    Gt(m, s) /\ Gt(cm, cm) /\ Gt(m, Num(0))

\* line 201: last_macd > last_signal and last_custom_macd > last_custom_signal
\*           and last_macd > 0
BullishBranch(m, s, cm, cs) ==
    Gt(m, s) /\ Gt(cm, cs) /\ Gt(m, Num(0))

\* line 204: last_macd < last_signal and last_custom_macd < last_custom_macd
\*           and last_macd < 0          (the custom MACD is compared with itself)
BearishBranch(m, s, cm, cs) ==
    Lt(m, s) /\ Lt(cm, cm) /\ Lt(m, Num(0))

\* lines 201-209: the if / elif / else chain
Classify(m, s, cm, cs) ==
    IF BullishBranch(m, s, cm, cs) THEN [label |-> "Bullish", color |-> "green"]
    ELSE IF BearishBranch(m, s, cm, cs) THEN [label |-> "Bearish", color |-> "red"]
    ELSE [label |-> "Neutral", color |-> "orange"]

\* The last rows of calculate_macd / calculate_custom_macd.  The EMA based
\* standard MACD and signal are defined from the first row on; the rolling
\* means of the custom MACD are NaN on short series, and signal_10_30 is a
\* rolling mean of macd_10_30, so it is NaN whenever macd_10_30 is.
LastRows ==
    {r \in [m : Defined, s : Defined, cm : MaybeNaN, cs : MaybeNaN] :
        r.cs.def => r.cm.def}

SigInit ==
    /\ \E r \in LastRows :
        /\ last_macd = r.m
        /\ last_signal = r.s
        /\ last_custom_macd = r.cm
        /\ last_custom_signal = r.cs
    /\ macd_signal = "unset"
    /\ signal_color = "unset"
    /\ sig_pc = "classify"

SigIdle ==
    /\ last_macd = Num(0)
    /\ last_signal = Num(0)
    /\ last_custom_macd = NaN
    /\ last_custom_signal = NaN
    /\ macd_signal = "unset"
    /\ signal_color = "unset"
    /\ sig_pc = "idle"

\* lines 201-209
ClassifySignal ==
    /\ sig_pc = "classify"
    /\ LET c == Classify(last_macd, last_signal, last_custom_macd, last_custom_signal)
       IN  /\ macd_signal' = c.label
           /\ signal_color' = c.color
    /\ sig_pc' = "render"
    /\ UNCHANGED <<last_macd, last_signal, last_custom_macd, last_custom_signal>>
    /\ UNCHANGED notSigVars

\* streamlit reruns the script top to bottom on every interaction: new data,
\* lines 196-199 read the last rows again
Rerun ==
    /\ sig_pc = "render"
    /\ \E r \in LastRows :
        /\ last_macd' = r.m
        /\ last_signal' = r.s
        /\ last_custom_macd' = r.cm
        /\ last_custom_signal' = r.cs
    /\ macd_signal' = "unset"
    /\ signal_color' = "unset"
    /\ sig_pc' = "classify"
    /\ UNCHANGED notSigVars

(***************************************************************************)
(* framework.py: StockReportGenerator, recommendations                     *)
(***************************************************************************)
\* The two report runs over one set of instrument snapshots: "seq" holds the
\* rows in the order a sequential fetch appends them, "par" in the order in
\* which the per-instrument results of a fanned-out fetch arrived.
Runs == {"seq", "par"}

\* One row of stock_df (the columns the recommendations read; __init__,
\* lines 34-41).  Ticker i is the i-th instrument of the universe.
Row(t, x) ==
    [Ticker |-> t,
     Weekly_Price_Change |-> x.wpc,
     Weekly_Percentage_Change |-> x.wpct,
     Monthly_Percentage_Change |-> x.mpct]

\* Snapshot figures around the thresholds of lines 198 and 237:
\* weekly price change, weekly percentage change, monthly percentage change.
SnapshotVals ==
    { [wpc |-> -15, wpct |-> -3, mpct |-> 5],    \* dip in an uptrend
      [wpc |-> -20, wpct |-> -2, mpct |-> 5],    \* deeper dip, smaller percentage
      [wpc |-> -10, wpct |-> -2, mpct |-> 5],    \* exactly -$10
      [wpc |-> -15, wpct |-> -3, mpct |-> 0],    \* flat month
      [wpc |-> 15, wpct |-> 3, mpct |-> -5],     \* spike in a downtrend
      [wpc |-> 20, wpct |-> 2, mpct |-> -5],     \* larger spike, smaller percentage
      [wpc |-> 10, wpct |-> 2, mpct |-> -5],     \* exactly +$10
      [wpc |-> 15, wpct |-> 3, mpct |-> 0] }     \* flat month

\* The universe of the specification's section 8: T1, T2, T3
ExampleUniverse ==
    << Row(1, [wpc |-> -15, wpct |-> -3, mpct |-> 5]),
       Row(2, [wpc |-> -5, wpct |-> -1, mpct |-> 5]),
       Row(3, [wpc |-> -20, wpct |-> -4, mpct |-> -1]) >>

\* the permutations of 1..k, for every k a table can have
AllPerms ==
    [k \in 0..(MaxRows + 1) |->
        {p \in [1..k -> 1..k] : \A i, j \in 1..k : p[i] = p[j] => i = j}]

Perms(k) == AllPerms[k]

Permute(rows, p) == [i \in 1..Len(rows) |-> rows[p[i]]]

Universes ==
    UNION {{[i \in 1..k |-> Row(i, x[i])] : x \in [1..k -> SnapshotVals]} :
             k \in 0..MaxRows}

\* line 198 with <= in place of <
BuyMask_Inclusive(row) ==
    row.Weekly_Price_Change <= -10 /\ row.Monthly_Percentage_Change > 0

\* line 198: (Weekly_Price_Change < -10) & (Monthly_Percentage_Change > 0)
BuyMask(row) ==
    row.Weekly_Price_Change < -10 /\ row.Monthly_Percentage_Change > 0

\* line 237 without the monthly condition
SellMask_WeeklyOnly(row) ==
    row.Weekly_Price_Change > 10

\* line 237: (Weekly_Price_Change > 10) & (Monthly_Percentage_Change < 0)
SellMask(row) ==
    row.Weekly_Price_Change > 10 /\ row.Monthly_Percentage_Change < 0

\* DataFrame.sort_values(by=..., ascending=...) with the default
\* kind="quicksort": the rows in key order; pandas leaves the relative order
\* of rows with equal keys unspecified (only mergesort / stable keep it), so
\* every arrangement of the ties is an outcome.
SortValues(rows, by, ascending) ==
    {s \in {Permute(rows, p) : p \in Perms(Len(rows))} :
        \A i \in 1..(Len(s) - 1) :
            IF ascending THEN s[i][by] <= s[i + 1][by]
                         ELSE s[i][by] >= s[i + 1][by]}

\* line 202 sorting the other way round
BuySort_Descending(rows) == SortValues(rows, "Weekly_Price_Change", FALSE)

\* line 202 left out: the rows stay in arrival order
BuySort_Missing(rows) == {rows}

\* line 202: sort_values(by="Weekly_Price_Change", ascending=True)
BuySort(rows) == SortValues(rows, "Weekly_Price_Change", TRUE)

\* line 241 sorting by the column the filter uses
SellSort_ByPrice(rows) == SortValues(rows, "Weekly_Price_Change", FALSE)

\* line 241: sort_values(by="Weekly_Percentage_Change", ascending=False)
SellSort(rows) == SortValues(rows, "Weekly_Percentage_Change", FALSE)

\* head(n) one row short
head_OffByOne(rows, n) ==
    SubSeq(rows, 1, IF n - 1 < Len(rows) THEN n - 1 ELSE Len(rows))

\* DataFrame.head(n), lines 206 and 245: the first n rows; for a negative n
\* all rows but the last -n
head(rows, n) ==
    IF n >= 0
    THEN SubSeq(rows, 1, IF n < Len(rows) THEN n ELSE Len(rows))
    ELSE SubSeq(rows, 1, IF Len(rows) + n > 0 THEN Len(rows) + n ELSE 0)

\* lines 207-218 and 246-257: the dictionary appended for one row
Recommendation(row) ==
    [ticker |-> row.Ticker,
     weekly_change |-> row.Weekly_Percentage_Change,
     weekly_price_change |-> row.Weekly_Price_Change,
     monthly_change |-> row.Monthly_Percentage_Change]

Recommendations(rows) == [i \in 1..Len(rows) |-> Recommendation(rows[i])]

\* _generate_buy_recommendations(n), lines 196-220: its possible results
BuyRecommendations(df, n) ==
    {Recommendations(head(s, n)) : s \in BuySort(SelectSeq(df, BuyMask))}

\* _generate_sell_recommendations(n), lines 235-259: its possible results
SellRecommendations(df, n) ==
    {Recommendations(head(s, n)) : s \in SellSort(SelectSeq(df, SellMask))}

At(run, step) == [run |-> run, at |-> step]

\* outcome of a call that has not been made
NotCalled == [status |-> "not called"]

\* StockReportGenerator(stock_df) of the sequential run, lines 43-49
RankInit ==
    /\ \E u \in Universes \cup {ExampleUniverse} :
           stock_df = [seq |-> u, par |-> <<>>]
    /\ n_recommendations \in 0..MaxN
    /\ buy_recommendations = [r \in Runs |-> <<>>]
    /\ sell_recommendations = [r \in Runs |-> <<>>]
    /\ rank_pc = At("seq", "buy")
    /\ summary_stats = NotCalled

RankIdle ==
    /\ stock_df = [r \in Runs |-> <<>>]
    /\ n_recommendations = 0
    /\ buy_recommendations = [r \in Runs |-> <<>>]
    /\ sell_recommendations = [r \in Runs |-> <<>>]
    /\ rank_pc = At("seq", "idle")
    /\ summary_stats = NotCalled

\* generate_report, line 75
GenerateBuyRecommendations(run) ==
    /\ rank_pc = At(run, "buy")
    /\ \E recs \in BuyRecommendations(stock_df[run], n_recommendations) :
           buy_recommendations' = [buy_recommendations EXCEPT ![run] = recs]
    /\ rank_pc' = At(run, "sell")
    /\ UNCHANGED <<stock_df, n_recommendations, sell_recommendations, summary_stats>>
    /\ UNCHANGED notRankVars

\* generate_report, line 76
GenerateSellRecommendations(run) ==
    /\ rank_pc = At(run, "sell")
    /\ \E recs \in SellRecommendations(stock_df[run], n_recommendations) :
           sell_recommendations' = [sell_recommendations EXCEPT ![run] = recs]
    /\ rank_pc' = At(run, "done")
    /\ UNCHANGED <<stock_df, n_recommendations, buy_recommendations, summary_stats>>
    /\ UNCHANGED notRankVars

\* StockReportGenerator(stock_df) of the second run, lines 43-49: the same
\* snapshots, appended in the order in which they arrived
Rearrange ==
    /\ rank_pc = At("seq", "done")
    /\ \E p \in Perms(Len(stock_df.seq)) :
           stock_df' = [stock_df EXCEPT !.par = Permute(stock_df.seq, p)]
    /\ rank_pc' = At("par", "buy")
    /\ UNCHANGED <<n_recommendations, buy_recommendations, sell_recommendations,
                   summary_stats>>
    /\ UNCHANGED notRankVars

(***************************************************************************)
(* framework.py: StockReportGenerator._generate_summary_stats              *)
(***************************************************************************)
\* One row of stock_df with the columns the summary reads.  The index labels
\* are unique (read_parquet gives a RangeIndex, drop_duplicates keeps it
\* unique), so .loc[label] is the row at the label's position.
SummaryRow(t, x) ==
    [Ticker |-> t,
     Index |-> x.idx,
     Weekly_Percentage_Change |-> x.wpct,
     Monthly_Percentage_Change |-> x.mpct]

SummaryVals ==
    [idx : {"S&P 500", "NASDAQ 100"}, wpct : {-1, 0, 1}, mpct : {-1, 0, 1}]

\* the table of k instruments with the values x[1] .. x[k]
SummaryUniverse(k, x) == [i \in 1..k |-> SummaryRow(i, x[i])]

RECURSIVE SumColumn(_, _)
SumColumn(df, col) ==
    IF df = <<>> THEN 0 ELSE df[1][col] + SumColumn(Tail(df), col)

\* Series.mean(): sum / count, NaN (0/0) for the empty column
Mean(df, col) == Frac(SumColumn(df, col), Len(df))

\* Series.idxmax() taking the last of several maxima
IdxMax_Last(df, col) ==
    CHOOSE i \in 1..Len(df) :
        /\ \A j \in 1..Len(df) : df[j][col] <= df[i][col]
        /\ \A j \in (i + 1)..Len(df) : df[j][col] < df[i][col]

\* Series.idxmax(): the label of the first occurrence of the maximum
IdxMax(df, col) ==
    CHOOSE i \in 1..Len(df) :
        /\ \A j \in 1..Len(df) : df[j][col] <= df[i][col]
        /\ \A j \in 1..(i - 1) : df[j][col] < df[i][col]

\* Series.idxmin(): the label of the first occurrence of the minimum
IdxMin(df, col) ==
    CHOOSE i \in 1..Len(df) :
        /\ \A j \in 1..Len(df) : df[j][col] >= df[i][col]
        /\ \A j \in 1..(i - 1) : df[j][col] > df[i][col]

\* line 272 counting the unchanged instruments as gainers
IsWeeklyGainer_Inclusive(row) == row.Weekly_Percentage_Change >= 0

\* line 272: Weekly_Percentage_Change > 0
IsWeeklyGainer(row) == row.Weekly_Percentage_Change > 0
\* line 273: Weekly_Percentage_Change < 0
IsWeeklyLoser(row) == row.Weekly_Percentage_Change < 0
\* line 274: Monthly_Percentage_Change > 0
IsMonthlyGainer(row) == row.Monthly_Percentage_Change > 0
\* line 275: Monthly_Percentage_Change < 0
IsMonthlyLoser(row) == row.Monthly_Percentage_Change < 0
IsSP500(row) == row.Index = "S&P 500"
IsNasdaq(row) == row.Index = "NASDAQ 100"

\* lines 268-280: the dictionary, its entries evaluated top to bottom
SummaryDict(df) ==
    [total_stocks |-> Len(df),
     sp500_count |-> Len(SelectSeq(df, IsSP500)),
     nasdaq_count |-> Len(SelectSeq(df, IsNasdaq)),
     weekly_gainers |-> Len(SelectSeq(df, IsWeeklyGainer)),
     weekly_losers |-> Len(SelectSeq(df, IsWeeklyLoser)),
     monthly_gainers |-> Len(SelectSeq(df, IsMonthlyGainer)),
     monthly_losers |-> Len(SelectSeq(df, IsMonthlyLoser)),
     avg_weekly_change |-> Mean(df, "Weekly_Percentage_Change"),
     avg_monthly_change |-> Mean(df, "Monthly_Percentage_Change"),
     top_weekly_gainer |-> df[IdxMax(df, "Weekly_Percentage_Change")].Ticker,
     top_weekly_loser |-> df[IdxMin(df, "Weekly_Percentage_Change")].Ticker]

\* _generate_summary_stats, lines 261-282.  The code tests nothing: on a
\* table without rows the counts are 0 and both means NaN, and idxmax() on
\* the empty column (line 278) raises ValueError("attempt to get argmax of an
\* empty sequence") before the dictionary is built.
SummaryStats(df) ==
    IF Len(df) = 0
    THEN [status |-> "raised", error |-> "ValueError", line |-> 278]
    ELSE [status |-> "returned", summary |-> SummaryDict(df)]

\* StockReportGenerator(stock_df), lines 43-49
SummaryInit ==
    /\ \E k \in 0..MaxRows : \E x \in [1..k -> SummaryVals] :
           stock_df = [seq |-> SummaryUniverse(k, x), par |-> <<>>]
    /\ n_recommendations = 0
    /\ buy_recommendations = [r \in Runs |-> <<>>]
    /\ sell_recommendations = [r \in Runs |-> <<>>]
    /\ rank_pc = At("seq", "summary")
    /\ summary_stats = NotCalled

\* generate_report, line 94
GenerateSummaryStats ==
    /\ rank_pc = At("seq", "summary")
    /\ summary_stats' = SummaryStats(stock_df.seq)
    /\ rank_pc' = At("seq", "summarised")
    /\ UNCHANGED <<stock_df, n_recommendations, buy_recommendations,
                   sell_recommendations>>
    /\ UNCHANGED notRankVars

(***************************************************************************)
(* main.py: get_stock_data, and the statistics row of 1_Stock_Summary.py   *)
(***************************************************************************)
\* Series.iloc[k]: k >= 0 counts from the first entry, k < 0 from the last
ILoc(s, k) == IF k < 0 THEN s[Len(s) + 1 + k] ELSE s[k + 1]

\* (x / ref) * 100 in float arithmetic
Times100(q) == Frac(q.num * 100, q.den)

\* round(x, 2): to the nearest hundredth, a tie to the even one; inf and NaN
\* round to themselves
Round2(q) ==
    IF q.den = 0 THEN q
    ELSE LET n == q.num * 100
             fl == n \div q.den
             rem == n - fl * q.den
             up == \/ 2 * rem > q.den
                   \/ (2 * rem = q.den /\ fl % 2 = 1)
         IN  Frac(IF up THEN fl + 1 ELSE fl, 100)

\* The price histories: a rising, a falling, a flat or a worthless series of
\* length 0 .. MaxLen, one of its closes possibly 0.
Shapes == {[slope |-> 1, base |-> 0], [slope |-> -1, base |-> MaxLen + 2],
           [slope |-> 0, base |-> 1], [slope |-> 0, base |-> 0]}

History(len, shape, zero) ==
    [i \in 1..len |-> IF i = zero THEN 0 ELSE shape.base + shape.slope * i]

Histories ==
    {History(len, shape, zero) :
        len \in 0..MaxLen, shape \in Shapes, zero \in 0..MaxLen}

\* line 79 taking the reference close[-lookback_periods]
WeekAgoPrice_Lookback(h) == IF Len(h) >= 6 THEN ILoc(h, -5) ELSE ILoc(h, 0)

\* main.py line 79: hist["Close"].iloc[-6] if len(hist) >= 6 else hist["Close"].iloc[0]
WeekAgoPrice(h) == IF Len(h) >= 6 THEN ILoc(h, -6) ELSE ILoc(h, 0)

\* main.py lines 86-87: month_ago_index = -22 if len(hist) >= 22 else 0
MonthAgoPrice(h) == ILoc(h, IF Len(h) >= 22 THEN -22 ELSE 0)

\* main.py lines 80-83 and 88-90: the change and its percentage
PriceChange(current_price, ago_price) == current_price - ago_price
PercentageChange(price_change, ago_price) == Times100(Frac(price_change, ago_price))

\* main.py lines 93-103: the dictionary appended for the ticker
StockResult(h) ==
    LET current_price == ILoc(h, -1)
        weekly_price_change == PriceChange(current_price, WeekAgoPrice(h))
        monthly_price_change == PriceChange(current_price, MonthAgoPrice(h))
    IN  [Ticker |-> "T1",
         Index |-> "S&P 500",
         Current_Price |-> Round2(Frac(current_price, 1)),
         Weekly_Price_Change |-> Round2(Frac(weekly_price_change, 1)),
         Weekly_Percentage_Change |->
             Round2(PercentageChange(weekly_price_change, WeekAgoPrice(h))),
         Monthly_Price_Change |-> Round2(Frac(monthly_price_change, 1)),
         Monthly_Percentage_Change |->
             Round2(PercentageChange(monthly_price_change, MonthAgoPrice(h)))]

\* 1_Stock_Summary.py lines 186-188
DashWeeklyChange(df) ==
    LET current_price == ILoc(df, -1)
        week_ago_idx == IF Len(df) >= 6 THEN -6 ELSE 0
        week_ago_price == ILoc(df, week_ago_idx)
    IN  Times100(Frac(current_price - week_ago_price, week_ago_price))

\* 1_Stock_Summary.py lines 191-193
DashMonthlyChange(df) ==
    LET current_price == ILoc(df, -1)
        month_ago_idx == IF Len(df) >= 21 THEN -21 ELSE 0
        month_ago_price == ILoc(df, month_ago_idx)
    IN  Times100(Frac(current_price - month_ago_price, month_ago_price))

ChgIdle ==
    /\ hist = <<>>
    /\ results = <<>>
    /\ outcome = NotCalled
    /\ weekly_change = NotCalled
    /\ monthly_change = NotCalled
    /\ chg_pc = [batch |-> "idle", dash |-> "idle"]

\* stock.history(...) has answered with the closes of the ticker
ChgInit ==
    /\ hist \in Histories
    /\ results = <<>>
    /\ outcome = NotCalled
    /\ weekly_change = NotCalled
    /\ monthly_change = NotCalled
    /\ chg_pc = [batch |-> "fetched", dash |-> "fetched"]

\* main.py lines 77-108: one pass of the loop body of get_stock_data.  The
\* closes are float64, so a division by 0.0 gives inf or NaN (the warning is
\* filtered, line 13) and nothing in the branch raises.
GetStockData ==
    /\ chg_pc.batch = "fetched"
    /\ IF Len(hist) > 0
       THEN /\ results' = Append(results, StockResult(hist))
            /\ outcome' = [status |-> "appended"]
       ELSE /\ results' = results
            /\ outcome' = [status |-> "no data"]
    /\ chg_pc' = [chg_pc EXCEPT !.batch = "done"]
    /\ UNCHANGED <<hist, weekly_change, monthly_change>>
    /\ UNCHANGED notChgVars

\* 1_Stock_Summary.py lines 153-193: get_stock_data returns None for an empty
\* frame (lines 51-53) and the script shows nothing (line 156)
DashboardStats ==
    /\ chg_pc.dash = "fetched"
    /\ IF Len(hist) > 0
       THEN /\ weekly_change' = DashWeeklyChange(hist)
            /\ monthly_change' = DashMonthlyChange(hist)
            /\ chg_pc' = [chg_pc EXCEPT !.dash = "done"]
       ELSE /\ UNCHANGED <<weekly_change, monthly_change>>
            /\ chg_pc' = [chg_pc EXCEPT !.dash = "no data"]
    /\ UNCHANGED <<hist, results, outcome>>
    /\ UNCHANGED notChgVars

(***************************************************************************)
(* backend/service/macd.py: calculate_custom_macd                          *)
(***************************************************************************)
\* the least common multiple of two positive numbers
Lcm(a, b) == (a \div Gcd(a, b)) * b

\* float arithmetic on defined values, over the common denominator; NaN in,
\* NaN out
FAdd(a, b) ==
    IF IsNaN(a) \/ IsNaN(b) THEN FNaN
    ELSE LET d == Lcm(a.den, b.den)
         IN  Frac(a.num * (d \div a.den) + b.num * (d \div b.den), d)

FSub_ZeroFill(a, b) ==
    LET x == IF IsNaN(a) THEN Frac(0, 1) ELSE a
        y == IF IsNaN(b) THEN Frac(0, 1) ELSE b
    IN  Frac(x.num * y.den - y.num * x.den, x.den * y.den)

FSub(a, b) ==
    IF IsNaN(a) \/ IsNaN(b) THEN FNaN
    ELSE LET d == Lcm(a.den, b.den)
         IN  Frac(a.num * (d \div a.den) - b.num * (d \div b.den), d)

FDivInt(a, n) == IF IsNaN(a) THEN FNaN ELSE Frac(a.num, a.den * n)

\* the frames: a Close column of 0 .. MaxBars prices
ClosePrices == {1, 4}

Frames ==
    UNION {{[Close |-> [i \in 1..k |-> Frac(c[i], 1)]] : c \in [1..k -> ClosePrices]} :
             k \in 0..MaxBars}

Windows == 1..MaxWin

\* df[col] = series: the column is added, or replaced when the frame has it
SetColumn(frame, col, series) ==
    [c \in DOMAIN frame \cup {col} |-> IF c = col THEN series ELSE frame[c]]

\* f"MA_{w}"
MAColumn(w) == "MA_" \o ToString(w)

\* pandas' rolling window takes row i: the row is added to the number of
\* non-NaN observations and their sum, and row i - window leaves
RollStep(prev, series, window, i) ==
    LET added == IF IsNaN(series[i]) THEN prev
                 ELSE [nobs |-> prev.nobs + 1, sum |-> FAdd(prev.sum, series[i])]
    IN  IF i > window /\ ~IsNaN(series[i - window])
        THEN [nobs |-> added.nobs - 1, sum |-> FSub(added.sum, series[i - window])]
        ELSE added

\* the state of the rolling window after row i
RECURSIVE RollState(_, _, _)
RollState(series, window, i) ==
    IF i = 0 THEN [nobs |-> 0, sum |-> Frac(0, 1)]
    ELSE CHOOSE st \in {RollStep(prev, series, window, i) :
                            prev \in {RollState(series, window, i - 1)}} : TRUE

\* rolling(window).mean() with min_periods = 1
RollingMean_MinPeriods1(series, window) ==
    [i \in 1..Len(series) |->
        LET st == RollState(series, window, i)
        IN  IF st.nobs >= 1 THEN FDivInt(st.sum, st.nobs) ELSE FNaN]

\* series.rolling(window=window).mean(): min_periods defaults to the window,
\* a row with fewer observations in its window is NaN
RollingMean(series, window) ==
    [i \in 1..Len(series) |->
        LET st == RollState(series, window, i)
        IN  IF st.nobs >= window THEN FDivInt(st.sum, st.nobs) ELSE FNaN]

\* a - b with the operands exchanged
SeriesSub_Swapped(a, b) == [i \in 1..Len(a) |-> FSub(b[i], a[i])]

\* a - b with NaN read as 0
SeriesSub_ZeroFill(a, b) == [i \in 1..Len(a) |-> FSub_ZeroFill(a[i], b[i])]

\* a - b of two columns of one frame, row by row
SeriesSub(a, b) == [i \in 1..Len(a) |-> FSub(a[i], b[i])]

\* lines 70-88, statement by statement: each set holds the one frame that
\* the statement makes of the frame the statement before it left
CalculateCustomMacd(frame, fast, slow, longest, signal) ==
    LET s73 == {SetColumn(d, MAColumn(fast), RollingMean(d["Close"], fast)) :
                   d \in {frame}}
        s74 == {SetColumn(d, MAColumn(slow), RollingMean(d["Close"], slow)) :
                   d \in s73}
        s75 == {SetColumn(d, MAColumn(longest), RollingMean(d["Close"], longest)) :
                   d \in s74}
        s78 == {SetColumn(d, "macd_10_30", SeriesSub(d[MAColumn(fast)], d[MAColumn(slow)])) :
                   d \in s75}
        s79 == {SetColumn(d, "macd_30_60", SeriesSub(d[MAColumn(slow)], d[MAColumn(longest)])) :
                   d \in s78}
        s80 == {SetColumn(d, "macd_10_60", SeriesSub(d[MAColumn(fast)], d[MAColumn(longest)])) :
                   d \in s79}
        s83 == {SetColumn(d, "signal_10_30", RollingMean(d["macd_10_30"], signal)) :
                   d \in s80}
        s84 == {SetColumn(d, "signal_30_60", RollingMean(d["macd_30_60"], signal)) :
                   d \in s83}
        s85 == {SetColumn(d, "signal_10_60", RollingMean(d["macd_10_60"], signal)) :
                   d \in s84}
    IN  CHOOSE df_custom \in s85 : TRUE

MacdIdle ==
    /\ price_df = [Close |-> <<>>]
    /\ fast_ma = 1
    /\ slow_ma = 1
    /\ longest_ma = 1
    /\ signal_period = 1
    /\ df_custom_macd = NotCalled
    /\ fast_period = 1
    /\ slow_period = 1
    /\ df_macd = NotCalled
    /\ macd_pc = "idle"

\* the caller holds a frame and four positive window sizes; nothing orders
\* them (1_Stock_Summary.py lines 37-41 allow fast_ma = 50 with slow_ma = 10)
MacdInit ==
    /\ price_df \in Frames
    /\ fast_ma \in Windows
    /\ slow_ma \in Windows
    /\ longest_ma \in Windows
    /\ signal_period \in Windows
    /\ df_custom_macd = NotCalled
    /\ fast_period = 1
    /\ slow_period = 1
    /\ df_macd = NotCalled
    /\ macd_pc = "call"

\* df.copy() handing back the frame it was given
DfCopy_Alias(obj) == obj

\* df.copy(): a new frame object with the rows and columns of obj
DfCopy(obj) == "copy of " \o obj

\* df_custom_macd = calculate_custom_macd(df, fast_ma, slow_ma, longest_ma,
\* signal_period): the function checks no parameter; its column assignments
\* land in the object df_custom of line 71
CalculateCustomMacdCall ==
    /\ macd_pc = "call"
    /\ \E frame \in {CalculateCustomMacd(price_df, fast_ma, slow_ma, longest_ma,
                                         signal_period)} :
           /\ df_custom_macd' = [status |-> "returned", frame |-> frame]
           /\ price_df' = IF DfCopy("df") = "df" THEN frame ELSE price_df
    /\ macd_pc' = "returned"
    /\ UNCHANGED <<fast_ma, slow_ma, longest_ma, signal_period,
                   fast_period, slow_period, df_macd>>
    /\ UNCHANGED notMacdVars

(***************************************************************************)
(* backend/service/macd.py: calculate_macd                                 *)
(***************************************************************************)
FMul(a, b) ==
    IF IsNaN(a) \/ IsNaN(b) THEN FNaN
    ELSE LET g == Gcd(Abs(a.num), b.den)
             h == Gcd(Abs(b.num), a.den)
         IN  Frac((a.num \div g) * (b.num \div h), (a.den \div h) * (b.den \div g))

FDiv(a, b) ==
    IF IsNaN(a) \/ IsNaN(b) THEN FNaN
    ELSE Frac(a.num * b.den, a.den * b.num)

\* a smoothing factor of 1 / span
Alpha_Reciprocal(span) == Frac(1, span)

\* ewm(span=span): alpha = 2 / (span + 1)
Alpha(span) == Frac(2, span + 1)

\* ewm(adjust=False).mean() takes the value cur: old_wt = 1 is scaled by
\* 1 - alpha, the new weight is alpha, and the weighted average is renormalised
EwmStep(weighted, cur, alpha) ==
    IF IsNaN(weighted) THEN cur
    ELSE IF IsNaN(cur) \/ weighted = cur THEN weighted
    ELSE LET old_wt == FSub(Frac(1, 1), alpha)
             new_wt == alpha
         IN  FDiv(FAdd(FMul(old_wt, weighted), FMul(new_wt, cur)),
                  FAdd(old_wt, new_wt))

\* the weighted average after row i; row 1 seeds it
RECURSIVE EwmState(_, _, _)
EwmState(series, alpha, i) ==
    IF i = 1 THEN series[1]
    ELSE CHOOSE w \in {EwmStep(prev, series[i], alpha) :
                           prev \in {EwmState(series, alpha, i - 1)}} : TRUE

\* series.ewm(span=span, adjust=False).mean(); min_periods is 0
EwmMean(series, span) ==
    [i \in 1..Len(series) |-> EwmState(series, Alpha(span), i)]

\* lines 40-51, statement by statement: each set holds the one frame that
\* the statement makes of the frame the statement before it left
CalculateMacd(frame, fast, slow, signal) ==
    LET s41 == {SetColumn(d, "ema_fast", EwmMean(d["Close"], fast)) : d \in {frame}}
        s42 == {SetColumn(d, "ema_slow", EwmMean(d["Close"], slow)) : d \in s41}
        s45 == {SetColumn(d, "macd", SeriesSub(d["ema_fast"], d["ema_slow"])) : d \in s42}
        s48 == {SetColumn(d, "signal", EwmMean(d["macd"], signal)) : d \in s45}
        s51 == {SetColumn(d, "histogram", SeriesSub(d["macd"], d["signal"])) : d \in s48}
    IN  CHOOSE out \in s51 : TRUE

\* the dashboard has the frame, has called calculate_custom_macd with ordered
\* windows or is about to, and holds three spans for calculate_macd
EmaInit ==
    /\ price_df \in Frames
    /\ fast_ma = 1
    /\ slow_ma = 2
    /\ longest_ma \in Windows
    /\ signal_period \in Windows
    /\ df_custom_macd = NotCalled
    /\ fast_period \in Windows
    /\ slow_period \in Windows
    /\ df_macd = NotCalled
    /\ macd_pc = "call"

\* df_macd = calculate_macd(df, fast_period, slow_period, signal_period)
\* (1_Stock_Summary.py line 178); its column assignments land in the object
\* df_macd of line 38
CalculateMacdCall ==
    /\ macd_pc = "returned"
    /\ \E frame \in {CalculateMacd(price_df, fast_period, slow_period, signal_period)} :
           /\ df_macd' = [status |-> "returned", frame |-> frame]
           /\ price_df' = IF DfCopy("df") = "df" THEN frame ELSE price_df
    /\ macd_pc' = "done"
    /\ UNCHANGED <<fast_ma, slow_ma, longest_ma, signal_period, df_custom_macd,
                   fast_period, slow_period>>
    /\ UNCHANGED notMacdVars

\* a frame of 1 .. MaxBars strictly rising closes
TrendInit ==
    /\ \E k \in 1..MaxBars : \E c \in [1..k -> 1..MaxPrice] :
           /\ \A i \in 1..(k - 1) : c[i] < c[i + 1]
           /\ price_df = [Close |-> [i \in 1..k |-> Frac(c[i], 1)]]
    /\ fast_ma \in Windows
    /\ slow_ma \in Windows
    /\ longest_ma \in Windows
    /\ signal_period \in Windows
    /\ df_custom_macd = NotCalled
    /\ fast_period = 1
    /\ slow_period = 1
    /\ df_macd = NotCalled
    /\ macd_pc = "call"

(***************************************************************************)
(* main.py: main                                                           *)
(***************************************************************************)
\* pd.DataFrame(): no rows and no columns
EmptyFrame == [columns |-> FALSE, rows |-> <<>>]

\* a frame with the columns of get_stock_data's dictionaries
DataFrame(rows) == [columns |-> TRUE, rows |-> rows]

\* pd.DataFrame(results): an empty list gives a frame without columns
FrameOf(rs) == IF rs = <<>> THEN EmptyFrame ELSE DataFrame(rs)

\* The market: ticker 1 is an S&P 500 stock, ticker 2 is in both indices and
\* ticker 3 is a NASDAQ 100 stock that is one of my_stocks.
sp500_tickers == <<1, 2>>
nasdaq100_tickers == <<2, 3>>
my_stocks == <<3>>
Tickers == {1, 2, 3}

NoData == [data |-> FALSE]

Quote(wpc, wpct, mpc) ==
    [data |-> TRUE, Weekly_Price_Change |-> wpc,
     Weekly_Percentage_Change |-> wpct, Monthly_Price_Change |-> mpc]

\* what a ticker's history can amount to: no data, or a week and a month of
\* one of these kinds
QuoteKinds ==
    {NoData, Quote(11, 0, 2), Quote(-11, 0, 2), Quote(0, 6, 2), Quote(0, -6, 2),
     Quote(0, 0, 2), Quote(-11, -6, 0)}

InList(t, list) == \E i \in 1..Len(list) : list[i] = t

\* get_stock_data(tickers, index_name) of lines 45-113: one row per ticker
\* that has data, in the order of the list
RECURSIVE StockRows(_, _, _)
StockRows(tickers, index_name, q) ==
    IF tickers = <<>> THEN <<>>
    ELSE LET t == Head(tickers)
             rest == StockRows(Tail(tickers), index_name, q)
         IN  IF q[t].data
             THEN <<[Ticker |-> t, Index |-> index_name,
                     Weekly_Price_Change |-> q[t].Weekly_Price_Change,
                     Weekly_Percentage_Change |-> q[t].Weekly_Percentage_Change,
                     Monthly_Price_Change |-> q[t].Monthly_Price_Change]>> \o rest
             ELSE rest

\* drop_duplicates(subset=["Ticker"], keep="first")
RECURSIVE DropDuplicates(_)
DropDuplicates(rows) ==
    IF rows = <<>> THEN <<>>
    ELSE LET init == DropDuplicates(SubSeq(rows, 1, Len(rows) - 1))
             last == rows[Len(rows)]
         IN  IF \E i \in 1..Len(init) : init[i].Ticker = last.Ticker
             THEN init ELSE Append(init, last)

\* sort_values("Ticker") of rows with distinct tickers
RECURSIVE SortByTicker(_)
SortByTicker(rows) ==
    IF rows = <<>> THEN <<>>
    ELSE LET m == CHOOSE i \in 1..Len(rows) :
                      \A j \in 1..Len(rows) : rows[i].Ticker <= rows[j].Ticker
         IN  <<rows[m]>> \o SortByTicker(SubSeq(rows, 1, m - 1) \o SubSeq(rows, m + 1, Len(rows)))

NotMyStock(row) == ~InList(row.Ticker, my_stocks)

\* lines 153-184: the scrape.  Without any S&P 500 or NASDAQ 100 row the
\* concatenation has no columns and drop_duplicates raises KeyError.
Scrape(q) ==
    LET nasdaq100_unique == SelectSeq(nasdaq100_tickers, LAMBDA t : ~InList(t, sp500_tickers))
        sp500_data == StockRows(sp500_tickers, "S&P 500", q)
        nasdaq100_data == StockRows(nasdaq100_unique, "NASDAQ 100", q)
        my_stock_data == StockRows(my_stocks, "My Stocks", q)
        concat == sp500_data \o nasdaq100_data
    IN  IF concat = <<>>
        THEN [status |-> "raised", error |-> "KeyError", line |-> 174]
        ELSE [status |-> "ok",
              combined_data |->
                  DataFrame(SortByTicker(
                      SelectSeq(DropDuplicates(concat), NotMyStock) \o my_stock_data))]

\* timedelta.seconds: the seconds of the difference beyond its whole days
TimedeltaSeconds(total_seconds) == total_seconds % 86400

\* bool_series | float_series: pandas reads the floats as booleans
OrBoolFloat(b, x) == b \/ x # 0

\* bool_series < number: True counts 1 and False 0
BoolLess(b, k) == (IF b THEN 1 ELSE 0) < k

\* lines 191-196, as Python parses the expression: | binds tighter than <, so
\* the first comparison is ((Weekly_Price_Change > 10) | Weekly_Price_Change) < -10
ActionableMask(row) ==
    /\ \/ BoolLess(OrBoolFloat(row.Weekly_Price_Change > 10, row.Weekly_Price_Change), -10)
       \/ (row.Weekly_Percentage_Change > 5 \/ row.Weekly_Percentage_Change < -5)
    /\ row.Monthly_Price_Change > 1

\* lines 189-197: the filter; a frame without columns has no
\* "Weekly_Price_Change" and the lookup raises KeyError
Actionables(frame) ==
    IF ~frame.columns
    THEN [status |-> "raised", error |-> "KeyError", line |-> 193]
    ELSE [status |-> "ok", actionable_file |-> DataFrame(SelectSeq(frame.rows, ActionableMask))]

\* lines 136-152: the condition of the if, and what the two reads leave
Reuses(snap) == snap.present /\ TimedeltaSeconds(snap.age) < 3600

\* main(), lines 114-199, for the directory snap and the market q
Main(snap, q) ==
    LET reuse == Reuses(snap)
        stored == Scrape(q)
        loaded == IF reuse
                  THEN [status |-> "ok",
                        combined_data |-> IF snap.stocks_readable
                                          THEN stored.combined_data ELSE EmptyFrame]
                  ELSE stored
        read_actionables ==
            IF reuse /\ snap.actionables_readable
            THEN DataFrame(SelectSeq(stored.combined_data.rows, ActionableMask))
            ELSE EmptyFrame
    IN  IF loaded.status = "raised"
        THEN [status |-> "raised", error |-> loaded.error, line |-> loaded.line,
              scraped |-> TRUE]
        ELSE IF read_actionables.rows # <<>>
        THEN [status |-> "returned", scraped |-> ~reuse,
              combined_data |-> loaded.combined_data,
              actionable_file |-> read_actionables]
        ELSE LET filtered == Actionables(loaded.combined_data)
             IN  IF filtered.status = "raised"
                 THEN [status |-> "raised", error |-> filtered.error,
                       line |-> filtered.line, scraped |-> ~reuse]
                 ELSE [status |-> "returned", scraped |-> ~reuse,
                       combined_data |-> loaded.combined_data,
                       actionable_file |-> filtered.actionable_file]

NoSnapshot ==
    [present |-> FALSE, age |-> 0, stocks_readable |-> FALSE,
     actionables_readable |-> FALSE]

MainIdle ==
    /\ snapshot = NoSnapshot
    /\ quotes = [t \in Tickers |-> NoData]
    /\ combined_data = EmptyFrame
    /\ actionable_file = EmptyFrame
    /\ main_outcome = NotCalled
    /\ main_pc = "idle"

\* a first run: no parquet file in the directory, any market
MainInit ==
    /\ snapshot = NoSnapshot
    /\ quotes \in [Tickers -> QuoteKinds]
    /\ combined_data = EmptyFrame
    /\ actionable_file = EmptyFrame
    /\ main_outcome = NotCalled
    /\ main_pc = "start"

\* the ages of a snapshot, in seconds
Ages == {d * 86400 + sec : d \in 0..MaxDays, sec \in {0, 1800, 3599, 3600, 7200, 86399}}

\* a later run: a stocks file written by an earlier scrape of the same
\* market lies in the directory; it and the actionables file next to it may
\* be unreadable
CacheInit ==
    /\ quotes \in [Tickers -> {NoData, Quote(11, 0, 2), Quote(0, 6, 2)}]
    /\ Scrape(quotes).status = "ok"
    /\ snapshot \in [present : {TRUE}, age : Ages, stocks_readable : BOOLEAN,
                     actionables_readable : BOOLEAN]
    /\ combined_data = EmptyFrame
    /\ actionable_file = EmptyFrame
    /\ main_outcome = NotCalled
    /\ main_pc = "start"

\* combined_data, actionable_file = main()
RunMain ==
    /\ main_pc = "start"
    /\ \E result \in {Main(snapshot, quotes)} :
           /\ main_outcome' = [status |-> result.status, scraped |-> result.scraped,
                               error |-> IF result.status = "raised"
                                         THEN result.error ELSE "none"]
           /\ combined_data' = IF result.status = "returned"
                               THEN result.combined_data ELSE combined_data
           /\ actionable_file' = IF result.status = "returned"
                                 THEN result.actionable_file ELSE actionable_file
    /\ main_pc' = "finished"
    /\ UNCHANGED <<snapshot, quotes>>
    /\ UNCHANGED notMainVars

(***************************************************************************)
(* framework.py: generate_report and save_report_to_html;                  *)
(* macd.py: fetch_charts                                                   *)
(***************************************************************************)
TickerName(i) == "T" \o ToString(i)

\* the rows of the report's table: a dip to buy, a spike to sell and two of
\* the user's own stocks
ReportVals ==
    { [idx |-> "S&P 500", wpc |-> -15, wpct |-> -3, mpct |-> 5],
      [idx |-> "NASDAQ 100", wpc |-> 15, wpct |-> 3, mpct |-> -5],
      [idx |-> "My Stocks", wpc |-> 0, wpct |-> 0, mpct |-> 0],
      [idx |-> "My Stocks", wpc |-> 15, wpct |-> 3, mpct |-> 5] }

ReportRow(i, x) ==
    [Ticker |-> TickerName(i),
     Index |-> x.idx,
     Weekly_Price_Change |-> x.wpc,
     Weekly_Percentage_Change |-> x.wpct,
     Monthly_Percentage_Change |-> x.mpct]

\* __init__, lines 45-48: report_data starts with the two strategy texts
InitialReportData ==
    [buy_strategy |-> "Stocks with negative weekly change (< -$10) but positive monthly change",
     sell_strategy |-> "Stocks with positive weekly change (> $10) but negative monthly change"]

\* macd.py lines 406-429: one entry per requested ticker, in request order;
\* line 410 replaces the loop variable by "SPY" before the data is fetched
\* and before the entry is labelled
FetchCharts(tickers) ==
    [i \in 1..Len(tickers) |->
        LET ticker == "SPY"
        IN  [ticker |-> ticker, charts_of |-> ticker]]

IsMyStock(row) == row.Index = "My Stocks"

\* lines 77-79: my_stock_tickers
MyStockTickers(rows) ==
    LET my == SelectSeq(rows, IsMyStock) IN [i \in 1..Len(my) |-> my[i].Ticker]

ReportIdle ==
    /\ report_df = <<>>
    /\ report_n = 0
    /\ report_data = InitialReportData
    /\ save_outcome = NotCalled
    /\ html_file = "absent"
    /\ report_pc = [generate |-> "idle", save |-> "idle"]

\* report_generator = StockReportGenerator(stock_df), lines 43-49
ReportInit ==
    /\ \E k \in 0..MaxRows : \E x \in [1..k -> ReportVals] :
           report_df = [i \in 1..k |-> ReportRow(i, x[i])]
    /\ report_n \in 0..MaxN
    /\ report_data = InitialReportData
    /\ save_outcome = NotCalled
    /\ html_file = "absent"
    /\ report_pc = [generate |-> "new", save |-> "new"]

\* generate_report, lines 51-96.  The summary statistics are the last entry
\* built; when they raise (empty table) report_data keeps its value.
GenerateReport ==
    /\ report_pc.generate = "new"
    /\ \E buy \in BuyRecommendations(report_df, report_n) :
       \E sell \in SellRecommendations(report_df, report_n) :
       \E stats \in {SummaryStats(report_df)} :
           IF stats.status = "raised"
           THEN /\ report_data' = report_data
                /\ report_pc' = [report_pc EXCEPT !.generate = "raised"]
           ELSE /\ report_data' =
                       [title |-> "Stock Market Report",
                        timestamp |-> "now",
                        charts |-> [statistics |-> FetchCharts(MyStockTickers(report_df))],
                        recommendations |->
                            [buy |-> buy, sell |-> sell,
                             my_stocks |-> SelectSeq(report_df, IsMyStock)],
                        summary_stats |-> stats.summary]
                /\ report_pc' = [report_pc EXCEPT !.generate = "returned"]
    /\ UNCHANGED <<report_df, report_n, save_outcome, html_file>>
    /\ UNCHANGED notReportVars

\* save_report_to_html, lines 284-end: the guard of line 291 tests whether
\* the dictionary is empty; the template then reads report_data['title']
SaveReportToHtml ==
    /\ report_pc.save = "new"
    /\ IF DOMAIN report_data = {}
       THEN /\ save_outcome' = [status |-> "raised", error |-> "ValueError"]
            /\ html_file' = html_file
       ELSE IF "title" \notin DOMAIN report_data
       THEN /\ save_outcome' = [status |-> "raised", error |-> "KeyError"]
            /\ html_file' = html_file
       ELSE /\ save_outcome' = [status |-> "returned", error |-> "none"]
            /\ html_file' = "written"
    /\ report_pc' = [report_pc EXCEPT !.save =
                        IF report_pc.generate = "returned" THEN "after" ELSE "before"]
    /\ UNCHANGED <<report_df, report_n, report_data>>
    /\ UNCHANGED notReportVars

(***************************************************************************)
(* Specifications                                                          *)
(***************************************************************************)
InitSignal == SigInit /\ RankIdle /\ ChgIdle /\ MacdIdle /\ MainIdle /\ ReportIdle
NextSignal == ClassifySignal \/ Rerun
SpecSignal == InitSignal /\ [][NextSignal]_vars

InitRank == SigIdle /\ RankInit /\ ChgIdle /\ MacdIdle /\ MainIdle /\ ReportIdle
NextRank ==
    \/ \E run \in Runs : GenerateBuyRecommendations(run)
    \/ \E run \in Runs : GenerateSellRecommendations(run)
    \/ Rearrange
SpecRank == InitRank /\ [][NextRank]_vars

InitSummary == SigIdle /\ SummaryInit /\ ChgIdle /\ MacdIdle /\ MainIdle /\ ReportIdle
NextSummary == GenerateSummaryStats
SpecSummary == InitSummary /\ [][NextSummary]_vars

InitChange == SigIdle /\ RankIdle /\ ChgInit /\ MacdIdle /\ MainIdle /\ ReportIdle
NextChange == GetStockData \/ DashboardStats
SpecChange == InitChange /\ [][NextChange]_vars

InitMacd == SigIdle /\ RankIdle /\ ChgIdle /\ MacdInit /\ MainIdle /\ ReportIdle
NextMacd == CalculateCustomMacdCall
SpecMacd == InitMacd /\ [][NextMacd]_vars

InitEma == SigIdle /\ RankIdle /\ ChgIdle /\ EmaInit /\ MainIdle /\ ReportIdle
NextEma == CalculateCustomMacdCall \/ CalculateMacdCall
SpecEma == InitEma /\ [][NextEma]_vars

InitTrend == SigIdle /\ RankIdle /\ ChgIdle /\ TrendInit /\ MainIdle /\ ReportIdle
NextTrend == CalculateCustomMacdCall
SpecTrend == InitTrend /\ [][NextTrend]_vars

InitMain == SigIdle /\ RankIdle /\ ChgIdle /\ MacdIdle /\ MainInit /\ ReportIdle
NextMain == RunMain
SpecMain == InitMain /\ [][NextMain]_vars

InitCache == SigIdle /\ RankIdle /\ ChgIdle /\ MacdIdle /\ CacheInit /\ ReportIdle
NextCache == RunMain
SpecCache == InitCache /\ [][NextCache]_vars

InitReport == SigIdle /\ RankIdle /\ ChgIdle /\ MacdIdle /\ MainIdle /\ ReportInit
NextReport == GenerateReport \/ SaveReportToHtml
SpecReport == InitReport /\ [][NextReport]_vars

(***************************************************************************)
(* The rules of the specification, section 4.4                             *)
(***************************************************************************)
RuleBullish ==
    /\ Gt(last_macd, last_signal)
    /\ Gt(last_custom_macd, last_custom_signal)
    /\ Gt(last_macd, Num(0))

RuleBearish ==
    /\ Lt(last_macd, last_signal)
    /\ Lt(last_custom_macd, last_custom_signal)
    /\ Lt(last_macd, Num(0))

Classified == sig_pc = "render"

\* C1: the classifier returns Bearish if and only if standard MACD < standard
\* signal, custom fast-vs-slow MACD < custom fast-vs-slow signal and standard
\* MACD < 0 (and the Bullish rule did not match first).
C1_BearishIffRule ==
    Classified => (macd_signal = "Bearish" <=> (RuleBearish /\ ~RuleBullish))

\* C2: the classifier returns Bullish if and only if standard MACD > standard
\* signal, custom fast-vs-slow MACD > its own signal and standard MACD > 0.
C2_BullishIffRule ==
    Classified => (macd_signal = "Bullish" <=> RuleBullish)

\* C2 witness: the classifier has run on inputs satisfying the Bullish rule
\* and answered Bullish.
C2_Witness ==
    /\ Classified
    /\ RuleBullish
    /\ macd_signal = "Bullish"
    /\ signal_color = "green"

\* C3: for every combination of the four inputs, NaN custom values included,
\* the result is exactly one of Bullish, Bearish, Neutral; the two rules never
\* hold together; and the result is Neutral exactly when neither rule holds.
C3_ExactlyOneLabel ==
    Classified =>
        /\ macd_signal \in {"Bullish", "Bearish", "Neutral"}
        /\ ~(RuleBullish /\ RuleBearish)
        /\ (macd_signal = "Neutral" <=> (~RuleBullish /\ ~RuleBearish))

(***************************************************************************)
(* The ranking contract of the specification, section 4.5                  *)
(***************************************************************************)
\* the run has just returned from _generate_buy_recommendations (the list is
\* not touched afterwards)
BuyDone(run) == rank_pc = At(run, "sell")

\* the run has just returned from _generate_sell_recommendations
SellDone(run) == rank_pc = At(run, "done")

QualifiesBuy(row) ==
    row.Weekly_Price_Change < -10 /\ row.Monthly_Percentage_Change > 0

QualifiesSell(row) ==
    row.Weekly_Price_Change > 10 /\ row.Monthly_Percentage_Change < 0

BuyCandidates(run) ==
    {j \in 1..Len(stock_df[run]) : QualifiesBuy(stock_df[run][j])}

SellCandidates(run) ==
    {j \in 1..Len(stock_df[run]) : QualifiesSell(stock_df[run][j])}

\* record rec reports row j of the run's table
Reports(rec, run, j) ==
    /\ rec.ticker = stock_df[run][j].Ticker
    /\ rec.weekly_price_change = stock_df[run][j].Weekly_Price_Change
    /\ rec.weekly_change = stock_df[run][j].Weekly_Percentage_Change
    /\ rec.monthly_change = stock_df[run][j].Monthly_Percentage_Change

Listed(recs, run, j) == \E i \in 1..Len(recs) : Reports(recs[i], run, j)

TickersOf(recs) == [i \in 1..Len(recs) |-> recs[i].ticker]

\* position of ticker t in the run's table
PositionOf(run, t) ==
    CHOOSE j \in 1..Len(stock_df[run]) : stock_df[run][j].Ticker = t

Min(a, b) == IF a < b THEN a ELSE b

\* C4: rank_buys returns only instruments with weekly_price_change < -10 and
\* monthly_percentage_change > 0; when at most n instruments qualify it returns
\* all of them; for T1 (-15, +5), T2 (-5, +5), T3 (-20, -1) and n = 2 the
\* result is exactly [T1].
C4_BuysAreTheQualifying ==
    \A run \in Runs : BuyDone(run) =>
        LET recs == buy_recommendations[run] IN
        /\ \A i \in 1..Len(recs) : \E j \in BuyCandidates(run) : Reports(recs[i], run, j)
        /\ Cardinality(BuyCandidates(run)) <= n_recommendations =>
               \A j \in BuyCandidates(run) : Listed(recs, run, j)
        /\ (stock_df.seq = ExampleUniverse /\ n_recommendations = 2) =>
               TickersOf(recs) = <<1>>

\* C4 witness: the sequential run has ranked the T1, T2, T3 universe with
\* n = 2 and returned [T1].
C4_Witness ==
    /\ BuyDone("seq")
    /\ stock_df.seq = ExampleUniverse
    /\ n_recommendations = 2
    /\ TickersOf(buy_recommendations.seq) = <<1>>

\* C5: the list of rank_buys is ascending in weekly_price_change, and no
\* qualifying instrument left out of it has a smaller weekly_price_change
\* than one that is in it.
C5_BuysAscending ==
    \A run \in Runs : BuyDone(run) =>
        LET recs == buy_recommendations[run] IN
        /\ \A i \in 1..(Len(recs) - 1) :
               recs[i].weekly_price_change <= recs[i + 1].weekly_price_change
        /\ \A j \in BuyCandidates(run) : ~Listed(recs, run, j) =>
               \A i \in 1..Len(recs) :
                   ~(stock_df[run][j].Weekly_Price_Change < recs[i].weekly_price_change)

\* C5 witness: the sort moved a deeper dip ahead of a shallower one that came
\* first in the table, and the cut at n left a qualifying instrument out.
C5_Witness ==
    /\ BuyDone("seq")
    /\ Len(buy_recommendations.seq) >= 2
    /\ buy_recommendations.seq[1].weekly_price_change
           < buy_recommendations.seq[2].weekly_price_change
    /\ buy_recommendations.seq[1].ticker > buy_recommendations.seq[2].ticker
    /\ \E j \in BuyCandidates("seq") : ~Listed(buy_recommendations.seq, "seq", j)

\* C6: rank_sells returns only instruments with weekly_price_change > 10 and
\* monthly_percentage_change < 0; when at most n instruments qualify it
\* returns all of them.
C6_SellsAreTheQualifying ==
    \A run \in Runs : SellDone(run) =>
        LET recs == sell_recommendations[run] IN
        /\ \A i \in 1..Len(recs) : \E j \in SellCandidates(run) : Reports(recs[i], run, j)
        /\ Cardinality(SellCandidates(run)) <= n_recommendations =>
               \A j \in SellCandidates(run) : Listed(recs, run, j)

\* C6 witness: all qualifying instruments were returned while a spike of more
\* than $10 with a flat month and a spike of exactly $10 were passed over.
C6_Witness ==
    /\ SellDone("seq")
    /\ Len(sell_recommendations.seq) = Cardinality(SellCandidates("seq"))
    /\ Len(sell_recommendations.seq) >= 1
    /\ \E j \in 1..Len(stock_df.seq) :
           /\ stock_df.seq[j].Weekly_Price_Change > 10
           /\ stock_df.seq[j].Monthly_Percentage_Change = 0
    /\ \E j \in 1..Len(stock_df.seq) :
           /\ stock_df.seq[j].Weekly_Price_Change = 10
           /\ stock_df.seq[j].Monthly_Percentage_Change < 0

\* C7: the list of rank_sells is descending in weekly_percentage_change (the
\* percentage, not the price change of the filter), and no qualifying
\* instrument left out of it has a larger weekly_percentage_change than one
\* that is in it.
C7_SellsDescendingByPercentage ==
    \A run \in Runs : SellDone(run) =>
        LET recs == sell_recommendations[run] IN
        /\ \A i \in 1..(Len(recs) - 1) :
               recs[i].weekly_change >= recs[i + 1].weekly_change
        /\ \A j \in SellCandidates(run) : ~Listed(recs, run, j) =>
               \A i \in 1..Len(recs) :
                   ~(stock_df[run][j].Weekly_Percentage_Change > recs[i].weekly_change)

\* C7 witness: the first record has the larger percentage and the smaller
\* price change, and came later in the table.
C7_Witness ==
    /\ SellDone("seq")
    /\ Len(sell_recommendations.seq) >= 2
    /\ sell_recommendations.seq[1].weekly_change > sell_recommendations.seq[2].weekly_change
    /\ sell_recommendations.seq[1].weekly_price_change
           < sell_recommendations.seq[2].weekly_price_change
    /\ sell_recommendations.seq[1].ticker > sell_recommendations.seq[2].ticker

\* C8: rank_buys and rank_sells return exactly min(n, k) records, k the number
\* of instruments satisfying the respective predicate; with k = 0 (the empty
\* universe included) the result is the empty list.
C8_ExactlyMinNK ==
    \A run \in Runs :
        /\ BuyDone(run) =>
               /\ Len(buy_recommendations[run])
                      = Min(n_recommendations, Cardinality(BuyCandidates(run)))
               /\ BuyCandidates(run) = {} => buy_recommendations[run] = <<>>
        /\ SellDone(run) =>
               /\ Len(sell_recommendations[run])
                      = Min(n_recommendations, Cardinality(SellCandidates(run)))
               /\ SellCandidates(run) = {} => sell_recommendations[run] = <<>>

\* C8 witness: more instruments qualified as buys than n > 0 allowed, and the
\* sell list of the same universe came back empty.
C8_Witness ==
    /\ SellDone("seq")
    /\ n_recommendations > 0
    /\ Cardinality(BuyCandidates("seq")) > n_recommendations
    /\ Len(buy_recommendations.seq) = n_recommendations
    /\ SellCandidates("seq") = {}
    /\ sell_recommendations.seq = <<>>

\* C9: two qualifying instruments with equal sort keys appear in the result
\* in the relative order they have in the input universe, for every universe
\* and every n.
C9_TiesKeepInputOrder ==
    \A run \in Runs :
        /\ BuyDone(run) =>
               LET recs == buy_recommendations[run] IN
               \A i, j \in 1..Len(recs) :
                   (i < j /\ recs[i].weekly_price_change = recs[j].weekly_price_change)
                       => PositionOf(run, recs[i].ticker) < PositionOf(run, recs[j].ticker)
        /\ SellDone(run) =>
               LET recs == sell_recommendations[run] IN
               \A i, j \in 1..Len(recs) :
                   (i < j /\ recs[i].weekly_change = recs[j].weekly_change)
                       => PositionOf(run, recs[i].ticker) < PositionOf(run, recs[j].ticker)

\* both runs have returned both lists
BothDone == rank_pc = At("par", "done")

\* C10: for any two permutations of the same universe, rank_buys and
\* rank_sells return the same records in the same order.
C10_OrderOfArrivalIrrelevant ==
    BothDone =>
        /\ buy_recommendations.seq = buy_recommendations.par
        /\ sell_recommendations.seq = sell_recommendations.par

\* the run's lists keep instruments with equal keys in the order of its table
TiesInInputOrder(run) ==
    /\ \A i, j \in 1..Len(buy_recommendations[run]) :
           (i < j /\ buy_recommendations[run][i].weekly_price_change
                        = buy_recommendations[run][j].weekly_price_change)
               => PositionOf(run, buy_recommendations[run][i].ticker)
                      < PositionOf(run, buy_recommendations[run][j].ticker)
    /\ \A i, j \in 1..Len(sell_recommendations[run]) :
           (i < j /\ sell_recommendations[run][i].weekly_change
                        = sell_recommendations[run][j].weekly_change)
               => PositionOf(run, sell_recommendations[run][i].ticker)
                      < PositionOf(run, sell_recommendations[run][j].ticker)

\* C10 on the runs in which sort_values happened to keep every tie in input
\* order, the behaviour section 4.5 asks for: the lists of two permutations
\* differ there as well, because the ties follow the order of arrival.
OrderOfArrivalIrrelevantWhenStable ==
    (BothDone /\ TiesInInputOrder("seq") /\ TiesInInputOrder("par")) =>
        /\ buy_recommendations.seq = buy_recommendations.par
        /\ sell_recommendations.seq = sell_recommendations.par

BuyKeysDistinct ==
    \A i, j \in BuyCandidates("seq") :
        stock_df.seq[i].Weekly_Price_Change = stock_df.seq[j].Weekly_Price_Change => i = j

SellKeysDistinct ==
    \A i, j \in SellCandidates("seq") :
        stock_df.seq[i].Weekly_Percentage_Change
            = stock_df.seq[j].Weekly_Percentage_Change => i = j

\* C10 as amended: for any two permutations of the same universe, rank_buys
\* returns the same records in the same order whenever no two qualifying
\* instruments share a weekly_price_change, and rank_sells whenever no two
\* qualifying instruments share a weekly_percentage_change.
C10_OrderOfArrivalIrrelevantWithoutTies ==
    BothDone =>
        /\ BuyKeysDistinct => buy_recommendations.seq = buy_recommendations.par
        /\ SellKeysDistinct => sell_recommendations.seq = sell_recommendations.par

\* C10 witness: the rows arrived in another order, two instruments with
\* different keys qualified, and both runs returned the same list.
C10_Witness ==
    /\ BothDone
    /\ stock_df.par # stock_df.seq
    /\ BuyKeysDistinct
    /\ Len(buy_recommendations.seq) >= 2
    /\ stock_df.par[1].Ticker = buy_recommendations.seq[2].ticker
    /\ buy_recommendations.seq = buy_recommendations.par

(***************************************************************************)
(* The summary contract of the specification, section 4.6                  *)
(***************************************************************************)
Summarised == rank_pc = At("seq", "summarised")

Returned == summary_stats.status = "returned"

\* C11: summary statistics over an empty universe fail with the typed error
\* EmptyUniverse; no summary with a NaN mean weekly or monthly change is ever
\* returned.
C11_EmptyUniverseError ==
    Summarised =>
        /\ Len(stock_df.seq) = 0 =>
               (summary_stats.status = "raised" /\ summary_stats.error = "EmptyUniverse")
        /\ Returned =>
               (~IsNaN(summary_stats.summary.avg_weekly_change)
                    /\ ~IsNaN(summary_stats.summary.avg_monthly_change))

ZeroWeekly(row) == row.Weekly_Percentage_Change = 0
ZeroMonthly(row) == row.Monthly_Percentage_Change = 0

\* C12: weekly (monthly) gainers is the number of instruments with weekly
\* (monthly) percentage change > 0 and losers the number with < 0; a zero
\* change counts in neither, so gainers + losers + zero-change instruments is
\* the total count, for every non-empty universe.
C12_GainersLosersStrict ==
    (Summarised /\ Len(stock_df.seq) > 0) =>
        LET df == stock_df.seq
            sm == summary_stats.summary
        IN  /\ Returned
            /\ sm.weekly_gainers
                   = Cardinality({i \in 1..Len(df) : df[i].Weekly_Percentage_Change > 0})
            /\ sm.weekly_losers
                   = Cardinality({i \in 1..Len(df) : df[i].Weekly_Percentage_Change < 0})
            /\ sm.monthly_gainers
                   = Cardinality({i \in 1..Len(df) : df[i].Monthly_Percentage_Change > 0})
            /\ sm.monthly_losers
                   = Cardinality({i \in 1..Len(df) : df[i].Monthly_Percentage_Change < 0})
            /\ sm.weekly_gainers + sm.weekly_losers + Len(SelectSeq(df, ZeroWeekly))
                   = sm.total_stocks
            /\ sm.monthly_gainers + sm.monthly_losers + Len(SelectSeq(df, ZeroMonthly))
                   = sm.total_stocks
            /\ sm.total_stocks = Len(df)

\* C12 witness: a summary of a universe with a weekly gainer, a weekly loser
\* and an instrument whose week was flat.
C12_Witness ==
    /\ Summarised
    /\ Returned
    /\ summary_stats.summary.weekly_gainers = 1
    /\ summary_stats.summary.weekly_losers = 1
    /\ summary_stats.summary.total_stocks = 3
    /\ summary_stats.summary.monthly_gainers + summary_stats.summary.monthly_losers < 3

\* C13: the top weekly gainer (loser) is the ticker of an instrument with the
\* maximum (minimum) weekly percentage change, the first in input order when
\* several share it.
C13_TopMoversFirstOccurrence ==
    (Summarised /\ Len(stock_df.seq) > 0) =>
        LET df == stock_df.seq
            sm == summary_stats.summary
        IN  /\ Returned
            /\ \E i \in 1..Len(df) :
                   /\ df[i].Ticker = sm.top_weekly_gainer
                   /\ \A j \in 1..Len(df) :
                          df[j].Weekly_Percentage_Change <= df[i].Weekly_Percentage_Change
                   /\ \A j \in 1..Len(df) :
                          df[j].Weekly_Percentage_Change = df[i].Weekly_Percentage_Change
                              => i <= j
            /\ \E i \in 1..Len(df) :
                   /\ df[i].Ticker = sm.top_weekly_loser
                   /\ \A j \in 1..Len(df) :
                          df[j].Weekly_Percentage_Change >= df[i].Weekly_Percentage_Change
                   /\ \A j \in 1..Len(df) :
                          df[j].Weekly_Percentage_Change = df[i].Weekly_Percentage_Change
                              => i <= j

\* C13 witness: the second and the third instrument share the maximum and the
\* first alone has the minimum: the gainer named is the second instrument.
C13_Witness ==
    /\ Summarised
    /\ Returned
    /\ Len(stock_df.seq) = 3
    /\ stock_df.seq[1].Weekly_Percentage_Change = -1
    /\ stock_df.seq[2].Weekly_Percentage_Change = 1
    /\ stock_df.seq[3].Weekly_Percentage_Change = 1
    /\ summary_stats.summary.top_weekly_gainer = 2
    /\ summary_stats.summary.top_weekly_loser = 1

(***************************************************************************)
(* The period change contract of the specification, section 4.2            *)
(***************************************************************************)
BatchAppended == chg_pc.batch = "done" /\ outcome.status = "appended"

DashDone == chg_pc.dash = "done"

\* the snapshot get_stock_data appended for the ticker
Snapshot == results[Len(results)]

\* C14: with fewer than lookback_periods + 1 entries the change is taken
\* against close[0] and the result carries short_window_used = true; with
\* lookback_periods + 1 entries or more the flag is false.
C14_ShortWindowFlagged ==
    BatchAppended =>
        /\ Len(hist) < 6 =>
               Snapshot.Weekly_Price_Change = Frac(hist[Len(hist)] - hist[1], 1)
        /\ "short_window_used" \in DOMAIN Snapshot
        /\ Snapshot.short_window_used = (Len(hist) < 6)

\* the close k rows before the last when the series has k + 1 entries or
\* more, the first close otherwise
CloseBack(h, k) == IF Len(h) >= k + 1 THEN h[Len(h) - k] ELSE h[1]

\* pct is 100 * change / ref: to the hundredth when rounded, exactly when
\* not; for ref = 0 it is the infinity of the sign of the change, or NaN
IsPercentageOf(pct, change, ref, rounded) ==
    IF ref = 0
    THEN pct.den = 0 /\ pct.num = Sign(change)
    ELSE /\ pct.den > 0
         /\ IF rounded
            THEN /\ 100 % pct.den = 0
                 /\ 200 * Abs(pct.num * ref - 100 * change * pct.den)
                        <= Abs(ref) * pct.den
            ELSE pct.num * ref = 100 * change * pct.den

C16_ZeroReferenceFails ==
    /\ (chg_pc.batch = "done" /\ Len(hist) > 0
            /\ (CloseBack(hist, 5) = 0 \/ CloseBack(hist, 21) = 0)) =>
           /\ outcome.status = "raised"
           /\ outcome.error = "DivisionByZero"
           /\ results = <<>>
    /\ BatchAppended =>
           /\ IsFinite(Snapshot.Weekly_Percentage_Change)
           /\ IsFinite(Snapshot.Monthly_Percentage_Change)
    /\ DashDone => (IsFinite(weekly_change) /\ IsFinite(monthly_change))

(***************************************************************************)
(* The indicator contract of the specification, sections 3 and 4.3         *)
(***************************************************************************)
MacdReturned == macd_pc = "returned" /\ df_custom_macd.status = "returned"

ValidTriple == fast_ma < slow_ma /\ slow_ma < longest_ma

\* C17: window parameters that are not positive or not ordered
\* fast < slow < long are rejected with InvalidParameter before any indicator
\* is computed; no result is returned for them.
C17_InvalidWindowsRejected ==
    (macd_pc = "returned" /\ ~ValidTriple) =>
        /\ df_custom_macd.status = "raised"
        /\ df_custom_macd.error = "InvalidParameter"

Max(a, b) == IF a >= b THEN a ELSE b

\* the sum of the closes of rows lo .. hi
RECURSIVE SumCloses(_, _, _)
SumCloses(close, lo, hi) ==
    IF lo > hi THEN 0 ELSE close[hi].num + SumCloses(close, lo, hi - 1)

\* m = a - b, m undefined when a or b is
IsDifference(m, a, b) ==
    IF IsNaN(a) \/ IsNaN(b) THEN IsNaN(m)
    ELSE /\ m.den > 0
         /\ LET d == Lcm(Lcm(a.den, b.den), m.den)
            IN  m.num * (d \div m.den)
                    = a.num * (d \div a.den) - b.num * (d \div b.den)

\* the sum of rows lo .. hi of a series without NaN in these rows
RECURSIVE SumRows(_, _, _)
SumRows(series, lo, hi) ==
    IF lo > hi THEN Frac(0, 1) ELSE FAdd(SumRows(series, lo, hi - 1), series[hi])

\* value = the mean of the window rows of series ending at row i, undefined
\* when the window reaches before the first row or holds an undefined row
IsTrailingMean(value, series, window, i) ==
    IF i < window \/ \E j \in (i - window + 1)..i : IsNaN(series[j])
    THEN IsNaN(value)
    ELSE LET total == SumRows(series, i - window + 1, i)
         IN  /\ value.den > 0
             /\ value.num * total.den * window = value.den * total.num

DerivedColumns ==
    {MAColumn(fast_ma), MAColumn(slow_ma), MAColumn(longest_ma),
     "macd_10_30", "macd_30_60", "macd_10_60",
     "signal_10_30", "signal_30_60", "signal_10_60"}

\* C18: for every valid triple the frame returned holds nine derived series
\* as long as the input: the three moving averages, the macd lines
\* MA_fast - MA_slow, MA_slow - MA_long and MA_fast - MA_long row by row, and
\* for each macd line the simple moving average of it over signal_period.
C18_NineSeries ==
    (MacdReturned /\ ValidTriple) =>
        LET out == df_custom_macd.frame
            rows == 1..Len(price_df.Close)
            fast == out[MAColumn(fast_ma)]
            slow == out[MAColumn(slow_ma)]
            long == out[MAColumn(longest_ma)]
        IN  /\ DOMAIN out = DerivedColumns \cup {"Close"}
            /\ Cardinality(DerivedColumns) = 9
            /\ \A c \in DOMAIN out : Len(out[c]) = Len(price_df.Close)
            /\ out.Close = price_df.Close
            /\ \A i \in rows :
                   /\ IsDifference(out.macd_10_30[i], fast[i], slow[i])
                   /\ IsDifference(out.macd_30_60[i], slow[i], long[i])
                   /\ IsDifference(out.macd_10_60[i], fast[i], long[i])
                   /\ IsTrailingMean(out.signal_10_30[i], out.macd_10_30, signal_period, i)
                   /\ IsTrailingMean(out.signal_30_60[i], out.macd_30_60, signal_period, i)
                   /\ IsTrailingMean(out.signal_10_60[i], out.macd_10_60, signal_period, i)

\* C18 witness: windows 1 < 2 < 3 and signal period 2 on four closes whose
\* last macd and signal values are all defined and not 0.
C18_Witness ==
    /\ MacdReturned
    /\ ValidTriple
    /\ signal_period = 2
    /\ Len(price_df.Close) = 4
    /\ \A c \in {"macd_10_30", "macd_30_60", "macd_10_60",
                 "signal_10_30", "signal_30_60", "signal_10_60"} :
           /\ IsFinite(df_custom_macd.frame[c][4])
           /\ df_custom_macd.frame[c][4].num # 0

\* C19: a macd line is undefined at every row i (counted from 1) below the
\* larger of its two windows, a signal line is undefined at row i when one of
\* the signal_period macd values ending at i is undefined or missing; no
\* undefined value is replaced by a number.
C19_UndefinedPropagates ==
    MacdReturned =>
        LET out == df_custom_macd.frame
            rows == 1..Len(price_df.Close)
            Undefined(line, sig, a, b) ==
                /\ \A i \in rows : i < Max(a, b) => IsNaN(out[line][i])
                /\ \A i \in rows :
                       (\E j \in (i - signal_period + 1)..i :
                            j < 1 \/ IsNaN(out[line][j])) => IsNaN(out[sig][i])
        IN  /\ Undefined("macd_10_30", "signal_10_30", fast_ma, slow_ma)
            /\ Undefined("macd_30_60", "signal_30_60", slow_ma, longest_ma)
            /\ Undefined("macd_10_60", "signal_10_60", fast_ma, longest_ma)

\* C19 witness: with windows 1, 2, 3 and signal period 2 on four closes the
\* fast-long macd line is undefined in rows 1 and 2, so its signal line is
\* undefined in row 3 and defined only in row 4.
C19_Witness ==
    /\ MacdReturned
    /\ fast_ma = 1 /\ slow_ma = 2 /\ longest_ma = 3 /\ signal_period = 2
    /\ Len(price_df.Close) = 4
    /\ IsNaN(df_custom_macd.frame.macd_10_60[2])
    /\ IsFinite(df_custom_macd.frame.macd_10_60[3])
    /\ IsNaN(df_custom_macd.frame.signal_10_60[3])
    /\ IsFinite(df_custom_macd.frame.signal_10_60[4])

\* C20: the moving average over w closes is, at row i >= w (counted from 1),
\* the arithmetic mean of the closes of rows i - w + 1 .. i, and undefined at
\* every row i < w; a series shorter than w has no defined average.
C20_SimpleMovingAverage ==
    MacdReturned =>
        \A w \in {fast_ma, slow_ma, longest_ma} :
            LET ma == df_custom_macd.frame[MAColumn(w)]
            IN  \A i \in 1..Len(price_df.Close) :
                    IF i >= w
                    THEN /\ ma[i].den > 0
                         /\ ma[i].num * w
                                = ma[i].den * SumCloses(price_df.Close, i - w + 1, i)
                    ELSE IsNaN(ma[i])

\* C20 witness: the closes 1, 4, 4, 1 averaged over 3: undefined in rows 1
\* and 2, 9/3 = 3 in row 3 and 9/3 = 3 in row 4.
C20_Witness ==
    /\ MacdReturned
    /\ longest_ma = 3
    /\ price_df.Close = <<Frac(1, 1), Frac(4, 1), Frac(4, 1), Frac(1, 1)>>
    /\ df_custom_macd.frame[MAColumn(3)]
           = <<FNaN, FNaN, Frac(3, 1), Frac(3, 1)>>

(***************************************************************************)
(* calculate_macd: the EMA based indicator                                 *)
(***************************************************************************)
MacdDone == macd_pc = "done" /\ df_macd.status = "returned"

\* ema is the exponential average of series for the span: seeded with the
\* first value, then (span + 1) * ema[i] = 2 * series[i] + (span - 1) * ema[i-1],
\* which is ema[i] = a * series[i] + (1 - a) * ema[i-1] for a = 2 / (span + 1)
IsEmaOf(ema, series, span) ==
    /\ Len(ema) = Len(series)
    /\ Len(series) >= 1 => ema[1] = series[1]
    /\ \A i \in 2..Len(series) :
           /\ ema[i].den > 0
           /\ LET d == Lcm(Lcm(series[i].den, ema[i - 1].den), ema[i].den)
              IN  (span + 1) * ema[i].num * (d \div ema[i].den)
                      = 2 * series[i].num * (d \div series[i].den)
                          + (span - 1) * ema[i - 1].num * (d \div ema[i - 1].den)

\* C21: the exponential moving average is seeded with the first close and
\* follows ema[i] = a * close[i] + (1 - a) * ema[i-1], a = 2 / (span + 1), for
\* the fast EMA, the slow EMA and the signal line (the EMA of the macd series).
C21_EmaRecurrence ==
    MacdDone =>
        LET out == df_macd.frame
        IN  /\ IsEmaOf(out.ema_fast, price_df.Close, fast_period)
            /\ IsEmaOf(out.ema_slow, price_df.Close, slow_period)
            /\ IsEmaOf(out.signal, out.macd, signal_period)

\* C21 witness: span 2 (a = 2/3) on the closes 1, 4, 4, 1 gives 1, 3, 11/3, 17/9.
C21_Witness ==
    /\ MacdDone
    /\ fast_period = 2
    /\ price_df.Close = <<Frac(1, 1), Frac(4, 1), Frac(4, 1), Frac(1, 1)>>
    /\ df_macd.frame.ema_fast = <<Frac(1, 1), Frac(3, 1), Frac(11, 3), Frac(17, 9)>>

\* C22: at every index macd = ema_fast - ema_slow and histogram = macd - signal,
\* the signal line being the EMA of the macd series over the signal span.
C22_MacdAndHistogram ==
    MacdDone =>
        LET out == df_macd.frame
        IN  /\ DOMAIN out = {"Close", "ema_fast", "ema_slow", "macd", "signal", "histogram"}
            /\ \A c \in DOMAIN out : Len(out[c]) = Len(price_df.Close)
            /\ \A i \in 1..Len(price_df.Close) :
                   /\ IsDifference(out.macd[i], out.ema_fast[i], out.ema_slow[i])
                   /\ IsDifference(out.histogram[i], out.macd[i], out.signal[i])
                   /\ IsFinite(out.histogram[i])
            /\ IsEmaOf(out.signal, out.macd, signal_period)

\* C22 witness: four closes whose last macd and histogram values are not 0.
C22_Witness ==
    /\ MacdDone
    /\ Len(price_df.Close) = 4
    /\ fast_period < slow_period
    /\ df_macd.frame.macd[4].num # 0
    /\ df_macd.frame.histogram[4].num # 0

Rising(close) == \A i \in 1..(Len(close) - 1) : close[i].num < close[i + 1].num

\* C23: on strictly rising closes with fast < slow the fast-slow macd value
\* of calculate_custom_macd is > 0 wherever both moving averages are defined.
C23_RisingSeriesPositiveMacd ==
    (MacdReturned /\ Rising(price_df.Close) /\ fast_ma < slow_ma) =>
        LET out == df_custom_macd.frame
        IN  \A i \in 1..Len(price_df.Close) :
                (~IsNaN(out[MAColumn(fast_ma)][i]) /\ ~IsNaN(out[MAColumn(slow_ma)][i]))
                    => (IsFinite(out.macd_10_30[i]) /\ out.macd_10_30[i].num > 0)

\* C23 witness: four rising closes, windows 1 and 3: the macd value of the
\* last row is defined and positive.
C23_Witness ==
    /\ MacdReturned
    /\ Rising(price_df.Close)
    /\ Len(price_df.Close) = 4
    /\ fast_ma = 1 /\ slow_ma = 3
    /\ IsFinite(df_custom_macd.frame.macd_10_30[4])
    /\ df_custom_macd.frame.macd_10_30[4].num > 0

\* C24: neither calculate_custom_macd nor calculate_macd changes the frame it
\* is given: no step changes its rows, columns or values.
C24_InputNeverMutated == [][price_df' = price_df]_vars

\* C24 witness: both functions have returned frames with derived columns and
\* the input of four closes still has its Close column only.
C24_Witness ==
    /\ MacdDone
    /\ df_custom_macd.status = "returned"
    /\ Len(price_df.Close) = 4
    /\ DOMAIN price_df = {"Close"}
    /\ "macd_10_30" \in DOMAIN df_custom_macd.frame
    /\ "histogram" \in DOMAIN df_macd.frame

(***************************************************************************)
(* The batch script, the report file and the statistics charts             *)
(***************************************************************************)
MainReturned == main_pc = "finished" /\ main_outcome.status = "returned"

\* the filter as the comment of line 190 and the specification describe it
MovedAndStillPositive(row) ==
    /\ \/ (row.Weekly_Price_Change > 10 \/ row.Weekly_Price_Change < -10)
       \/ (row.Weekly_Percentage_Change > 5 \/ row.Weekly_Percentage_Change < -5)
    /\ row.Monthly_Price_Change > 1

\* C25: the actionable table holds exactly the stocks whose weekly price
\* change is above 10 or below -10, or whose weekly percentage change is above
\* 5 or below -5, and whose monthly price change is above 1.
C25_ActionableFilter ==
    (MainReturned /\ main_outcome.scraped) =>
        actionable_file.rows = SelectSeq(combined_data.rows, MovedAndStillPositive)

\* C26: main() reuses a snapshot exactly when its timestamp is less than one
\* hour before the current time; an older one, whole days older included,
\* leads to a fresh scrape.
C26_ReuseOnlyWithinTheHour ==
    (main_pc = "finished" /\ snapshot.present) =>
        (~main_outcome.scraped <=> snapshot.age < 3600)

SaveCalledFirst == report_pc.save = "before" /\ report_pc.generate = "new"

\* C27: save_report_to_html on a generator whose generate_report has not been
\* called raises ValueError and writes no file.
C27_SaveBeforeGenerateRaises ==
    SaveCalledFirst =>
        /\ save_outcome.status = "raised"
        /\ save_outcome.error = "ValueError"
        /\ html_file = "absent"

\* C28: with a snapshot less than an hour old whose stock table cannot be
\* read, main() scrapes and returns a non-empty combined table; it does not
\* reach the actionable filter with an empty table without columns.
C28_UnreadableSnapshotFallsBack ==
    (main_pc = "finished" /\ snapshot.present /\ snapshot.age < 3600
        /\ ~snapshot.stocks_readable) =>
        /\ main_outcome.status = "returned"
        /\ main_outcome.scraped
        /\ combined_data.rows # <<>>

\* C29: for the same price series the dashboard and get_stock_data arrive at
\* the same weekly and the same monthly percentage change (to the hundredth,
\* the precision of the snapshot).
C29_DashboardAgreesWithBatch ==
    (BatchAppended /\ DashDone) =>
        /\ Round2(weekly_change) = Snapshot.Weekly_Percentage_Change
        /\ Round2(monthly_change) = Snapshot.Monthly_Percentage_Change

ReportGenerated == report_pc.generate = "returned"

\* C30: fetch_charts returns one entry per requested ticker in request order,
\* entry i labelled with and computed from the data of tickers[i]; the
\* report's statistics charts cover exactly the tickers tagged "My Stocks".
C30_ChartsPerRequestedTicker ==
    ReportGenerated =>
        LET tickers == MyStockTickers(report_df)
            charts == report_data.charts.statistics
        IN  /\ Len(charts) = Len(tickers)
            /\ \A i \in 1..Len(tickers) :
                   /\ charts[i].ticker = tickers[i]
                   /\ charts[i].charts_of = tickers[i]

====
